---- MODULE Spec2Model ----
(***************************************************************************)
(* The Autopilot pipeline of image-quality-app: validation, the basic      *)
(* analyzer, the quality scorer, the recommendation planner and the        *)
(* enhancement orchestrator (processAutopilotEnhance) with its three       *)
(* provider adapters.                                                      *)
(*                                                                         *)
(* Conventions.  A JavaScript number with one decimal (the tone            *)
(* intensity 2.0 / 1.5 / 1.0, the basic score 5.0) is kept in tenths.      *)
(* An error is the string of its message's kind, "" meaning no error.      *)
(***************************************************************************)
EXTENDS Integers, Sequences, FiniteSets, TLC

VARIABLES
    pc,               \* position of the request being served
    apiToken,         \* TRUE iff process.env.REPLICATE_API_TOKEN is set
    imageBase64,      \* the image of the request body
    analysis,         \* the object handed to calculateQualityScores
    scores,           \* calculateQualityScores' result
    recommendations,  \* the plan: planner output / enhance request body
    idx,              \* 1-based position of the for-of loop in priority
    currentImage,     \* processAutopilotEnhance's local currentImage
    results,          \* processAutopilotEnhance's results object
    calls,            \* the adapter invocations made so far, in order
    response,         \* what the request finally returned
    app               \* the state of the App component in the browser

vars == <<pc, apiToken, imageBase64, analysis, scores, recommendations,
          idx, currentImage, results, calls, response, app>>

----------------------------------------------------------------------------
(* Bounds of the model *)

MaxPriorityLen == 3
NumOutputs == 2
MaxFiles == 3

----------------------------------------------------------------------------
(* The App component before anything is selected.  A file is a number      *)
(* from 1 on, 0 standing for null; a value computed from a file (a score,  *)
(* a plan, a processed image) is the number of that file.  run is the      *)
(* pending call of handleAutopilot with the file its closure captured.     *)

NoApp == [file |-> 0,
          autopilotScores |-> 0,
          autopilotRecommendations |-> 0,
          currentProcessedImage |-> 0,
          isAutopilotAnalyzing |-> FALSE,
          isAutopilotEnhancing |-> FALSE,
          error |-> FALSE,
          run |-> [at |-> "idle", file |-> 0]]

----------------------------------------------------------------------------
(* Images.  An image reference is a string (a data: URL, bare base64 text, *)
(* a URL a provider returned), a non-string provider object, or missing.   *)

DataUrl(m, n) == [kind |-> "data", mime |-> m, bytes |-> n, id |-> 0]
RawBase64(n) == [kind |-> "raw", mime |-> "", bytes |-> n, id |-> 0]
Url(k) == [kind |-> "url", mime |-> "", bytes |-> 0, id |-> k]
FileObject(k) == [kind |-> "object", mime |-> "", bytes |-> 0, id |-> k]
NoImage == [kind |-> "missing", mime |-> "", bytes |-> 0, id |-> 0]

\* String.prototype.toLowerCase on the declared media types of the model
LowerCase(m) ==
    CASE m = "image/JPEG" -> "image/jpeg"
      [] m = "image/PNG" -> "image/png"
      [] OTHER -> m

\* (mutant) the regex without its i flag
base64RegexCaseSensitive(m) ==
    m \in {"image/jpeg", "image/jpg", "image/png", "image/webp",
           "image/gif", "image/bmp", "image/tiff"}

\* /^data:image\/(jpeg|jpg|png|webp|gif|bmp|tiff)/i
base64Regex(m) ==
    LowerCase(m) \in {"image/jpeg", "image/jpg", "image/png", "image/webp",
                      "image/gif", "image/bmp", "image/tiff"}

\* validateImageData: "" when it returns true, else the error it throws.
\* A non-string (a provider's file object) has no startsWith: a TypeError.
validateImageData(img) ==
    CASE img.kind = "missing" -> "missing_image"
      [] img.kind = "data" ->
            IF base64Regex(img.mime) THEN "" ELSE "unsupported_format"
      [] img.kind = "object" -> "type_error"
      [] OTHER -> ""

\* createReplicateClient: throws when the token is missing
createReplicateClient(token) == IF token THEN "" ELSE "token_required"

\* validateUpscaleParams
validateUpscaleParams(model, scale) ==
    IF model \notin {"real-esrgan", "aura-sr-v2"} THEN "unsupported_model"
    ELSE IF scale \notin {2, 4, 8} THEN "unsupported_scale"
    ELSE ""

\* the first of the errors es (in order) that is not "", or ""
FirstError(es) ==
    LET bad == {k \in 1..Len(es) : es[k] # ""}
    IN  IF bad = {} THEN ""
        ELSE es[CHOOSE k \in bad : \A j \in bad : k <= j]

----------------------------------------------------------------------------
(* Plans *)

StepNames == {"tone", "detail", "upscale"}
NullCfg == [enabled |-> FALSE, null |-> TRUE]

\* recommendations[step]
Cfg(rec, step) ==
    CASE step = "tone" -> rec.tone
      [] step = "detail" -> rec.detail
      [] step = "upscale" -> rec.upscale
      [] OTHER -> NullCfg

\* step === '<name>' && recommendations.<name>?.enabled
StepEnabled(rec, step) == step \in StepNames /\ Cfg(rec, step).enabled

----------------------------------------------------------------------------
(* Provider adapters.  What each adapter does before it calls the          *)
(* provider, and what it makes of the provider's answer.                   *)

\* the checks of processToneEnhance / processDetailEnhance / processUpscale
\* that precede replicate.run, in the code's order
PreCallError(step, img, cfg, token) ==
    CASE step = "tone" ->
            FirstError(<<validateImageData(img),
                IF cfg.type \in {"general", "night", "landscape", "hdr"}
                    THEN "" ELSE "unsupported_type",
                IF cfg.intensity < 1 \/ cfg.intensity > 20
                    THEN "bad_intensity" ELSE "",
                createReplicateClient(token)>>)
      [] step = "detail" ->
            FirstError(<<validateImageData(img),
                IF cfg.type \in {"hair", "plant", "text", "general"}
                    THEN "" ELSE "unsupported_type",
                IF cfg.strength < 1 \/ cfg.strength > 3
                    THEN "bad_strength" ELSE "",
                createReplicateClient(token)>>)
      [] OTHER ->
            FirstError(<<validateImageData(img),
                validateUpscaleParams(cfg.model, cfg.scale),
                createReplicateClient(token)>>)

\* What replicate.run can do: reject with an error, or resolve with an
\* output of some shape
ProviderErrors == {"insufficient_quota", "rate_limit", "authentication", "timeout"}
ProviderAnswers ==
    [err : ProviderErrors, shape : {"rejected"}, id : {0}]
    \cup [err : {""}, shape : {"string", "array", "object"}, id : 1..NumOutputs]
    \cup [err : {""}, shape : {"empty_array", "null"}, id : {0}]

\* the adapter's reading of a resolved output: [err, image]
ReadOutput(step, ans) ==
    IF step = "upscale"
    THEN CASE ans.shape \in {"null", "empty_array"} ->
                [err |-> "empty_result", image |-> NoImage]
           [] ans.shape \in {"array", "string"} ->
                [err |-> "", image |-> Url(ans.id)]
           [] OTHER -> [err |-> "", image |-> FileObject(ans.id)]
    ELSE CASE ans.shape \in {"array", "string"} ->
                [err |-> "", image |-> Url(ans.id)]
           [] ans.shape = "empty_array" ->
                [err |-> "empty_result", image |-> NoImage]
           [] OTHER -> [err |-> "invalid_output", image |-> NoImage]

\* the adapters' catch block: the message of the Error they rethrow
AdapterMessage(e) ==
    CASE e = "insufficient_quota" -> "API quota exhausted"
      [] e = "rate_limit" -> "rate limited"
      [] e = "authentication" -> "API authentication failed"
      [] OTHER -> e

\* the adapter's result for a provider answer: [err, image]
AdapterResult(step, ans) ==
    IF ans.err # ""
    THEN [err |-> AdapterMessage(ans.err), image |-> NoImage]
    ELSE LET r == ReadOutput(step, ans)
         IN  [err |-> AdapterMessage(r.err), image |-> r.image]

----------------------------------------------------------------------------
(* The Quality Scorer: calculateQualityScores and its three helpers *)

MaxScore == 100

ToneTags == {"underexposed", "overexposed", "low_contrast", "color_cast"}
DetailTags == {"blurry", "noisy", "compression_artifacts", "soft_details"}
IssueTags == ToneTags \cup DetailTags

Max(a, b) == IF a >= b THEN a ELSE b
Min(a, b) == IF a <= b THEN a ELSE b

\* Math.max(0, Math.min(100, score))
Clamp(score) == Max(0, Min(MaxScore, score))

\* (mutant) Math.floor in place of Math.round
MathFloor(n, d) == n \div d

\* Math.round(n / d) for n >= 0, d > 0: the nearest integer, halves upwards
MathRound(n, d) == (2 * n + d) \div (2 * d)

\* score -= p if the tag is included
Penalty(issues, tag, p) == IF tag \in issues THEN p ELSE 0

calculateToneScore(a) ==
    Clamp(IF a.has_quality_issues
          THEN 70 - Penalty(a.quality_issues, "underexposed", 20)
                  - Penalty(a.quality_issues, "overexposed", 20)
                  - Penalty(a.quality_issues, "low_contrast", 15)
                  - Penalty(a.quality_issues, "color_cast", 15)
          ELSE 70)

\* (mutant) an else-if chain: only the first tag present is penalised
calculateDetailScoreFirstOnly(a) ==
    Clamp(IF ~a.has_quality_issues THEN 75
          ELSE IF "blurry" \in a.quality_issues THEN 75 - 25
          ELSE IF "noisy" \in a.quality_issues THEN 75 - 20
          ELSE IF "compression_artifacts" \in a.quality_issues THEN 75 - 15
          ELSE IF "soft_details" \in a.quality_issues THEN 75 - 10
          ELSE 75)

calculateDetailScore(a) ==
    Clamp(IF a.has_quality_issues
          THEN 75 - Penalty(a.quality_issues, "blurry", 25)
                  - Penalty(a.quality_issues, "noisy", 20)
                  - Penalty(a.quality_issues, "compression_artifacts", 15)
                  - Penalty(a.quality_issues, "soft_details", 10)
          ELSE 75)

\* (mutant) the largest penalty is 45
ResolutionPenaltySteep(totalPixels) ==
    IF totalPixels < 500000 THEN 45
    ELSE IF totalPixels < 1000000 THEN 20
    ELSE IF totalPixels < 2000000 THEN 10
    ELSE 0

\* the else-if chain over totalPixels
ResolutionPenalty(totalPixels) ==
    IF totalPixels < 500000 THEN 30
    ELSE IF totalPixels < 1000000 THEN 20
    ELSE IF totalPixels < 2000000 THEN 10
    ELSE 0

\* (mutant) the penalty is taken from the size the Analyzer reports
calculateResolutionScoreFromSize(a) ==
    Clamp(80 - ResolutionPenalty(a.analysis.size * 8))

calculateResolutionScore(a) ==
    Clamp(IF a.has_image_info
          THEN 80 - ResolutionPenalty(a.image_info.width * a.image_info.height)
          ELSE 80)

calculateQualityScores(a) ==
    LET toneScore == calculateToneScore(a)
        detailScore == calculateDetailScore(a)
        resolutionScore == calculateResolutionScore(a)
    IN  [tone |-> MathRound(toneScore, 1),
         detail |-> MathRound(detailScore, 1),
         resolution |-> MathRound(resolutionScore, 1),
         overall |-> MathRound(toneScore + detailScore + resolutionScore, 3)]

----------------------------------------------------------------------------
(* The Recommendation Planner: generateEnhancementRecommendations *)

\* (mutant) the tone threshold is inclusive
ToneRecommendationInclusive(sc) ==
    IF sc.tone <= 80
    THEN [enabled |-> TRUE,
          type |-> IF sc.tone < 50 THEN "night" ELSE "general",
          intensity |-> IF sc.tone < 40 THEN 20
                        ELSE IF sc.tone < 60 THEN 15 ELSE 10]
    ELSE NullCfg

\* (mutant) the two upper intensities change places
ToneRecommendationSwapped(sc) ==
    IF sc.tone < 80
    THEN [enabled |-> TRUE,
          type |-> IF sc.tone < 50 THEN "night" ELSE "general",
          intensity |-> IF sc.tone < 40 THEN 15
                        ELSE IF sc.tone < 60 THEN 20 ELSE 10]
    ELSE NullCfg

ToneRecommendation(sc) ==
    IF sc.tone < 80
    THEN [enabled |-> TRUE,
          type |-> IF sc.tone < 50 THEN "night" ELSE "general",
          intensity |-> IF sc.tone < 40 THEN 20
                        ELSE IF sc.tone < 60 THEN 15 ELSE 10]
    ELSE NullCfg

\* (mutant) the strength boundaries are inclusive
DetailRecommendationInclusive(sc) ==
    IF sc.detail < 80
    THEN [enabled |-> TRUE,
          type |-> "general",
          strength |-> IF sc.detail <= 40 THEN 3
                       ELSE IF sc.detail <= 60 THEN 2 ELSE 1]
    ELSE NullCfg

DetailRecommendation(sc) ==
    IF sc.detail < 80
    THEN [enabled |-> TRUE,
          type |-> IF sc.detail < 50 THEN "general" ELSE "general",
          strength |-> IF sc.detail < 40 THEN 3
                       ELSE IF sc.detail < 60 THEN 2 ELSE 1]
    ELSE NullCfg

\* (mutant) the larger scale is 3
UpscaleRecommendationThreefold(sc) ==
    IF sc.resolution < 70
    THEN [enabled |-> TRUE,
          scale |-> IF sc.resolution < 40 THEN 3
                    ELSE IF sc.resolution < 60 THEN 2 ELSE 2,
          model |-> "real-esrgan"]
    ELSE NullCfg

UpscaleRecommendation(sc) ==
    IF sc.resolution < 70
    THEN [enabled |-> TRUE,
          scale |-> IF sc.resolution < 40 THEN 4
                    ELSE IF sc.resolution < 60 THEN 2 ELSE 2,
          model |-> "real-esrgan"]
    ELSE NullCfg

\* (mutant) the push is outside the step's if
PushAlways(prio, sc, name) == Append(prio, name)

\* recommendations.priority.push(name), inside the step's if
Push(prio, sc, name) ==
    CASE name = "tone" -> IF sc.tone < 80 THEN Append(prio, name) ELSE prio
      [] name = "detail" -> IF sc.detail < 80 THEN Append(prio, name) ELSE prio
      [] OTHER -> IF sc.resolution < 70 THEN Append(prio, name) ELSE prio

generateEnhancementRecommendations(sc) ==
    [kind |-> "plan",
     tone |-> ToneRecommendation(sc),
     detail |-> DetailRecommendation(sc),
     upscale |-> UpscaleRecommendation(sc),
     priority |-> Push(Push(Push(<<>>, sc, "tone"), sc, "detail"),
                       sc, "upscale")]

----------------------------------------------------------------------------
(* The Enhance request: the two entry points and processAutopilotEnhance *)

NoResults == [original |-> NoImage, steps |-> <<>>, final |-> NoImage]
NoResponse == [status |-> 0, success |-> FALSE, total_steps |-> 0,
               successful_steps |-> 0, error |-> ""]
NoScores == [tone |-> 0, detail |-> 0, resolution |-> 0, overall |-> 0]
NoAnalysis == [kind |-> "none"]

\* the plans an Enhance request can carry
ToneCfgs == {NullCfg,
             [enabled |-> FALSE, type |-> "general", intensity |-> 10],
             [enabled |-> TRUE, type |-> "night", intensity |-> 20]}
DetailCfgs == {NullCfg,
               [enabled |-> FALSE, type |-> "general", strength |-> 1],
               [enabled |-> TRUE, type |-> "general", strength |-> 2]}
UpscaleCfgs == {NullCfg,
                [enabled |-> FALSE, scale |-> 2, model |-> "real-esrgan"],
                [enabled |-> TRUE, scale |-> 2, model |-> "real-esrgan"]}
PriorityNames == StepNames \cup {"sharpen"}
PriorityLists ==
    UNION {[1..n -> PriorityNames] : n \in 0..MaxPriorityLen}
RequestPlans ==
    [kind : {"plan"}, tone : ToneCfgs, detail : DetailCfgs,
     upscale : UpscaleCfgs, priority : PriorityLists]
    \cup [kind : {"null", "no_priority", "not_iterable"}, tone : {NullCfg},
          detail : {NullCfg}, upscale : {NullCfg}, priority : {<<>>}]
RequestImages == {DataUrl("image/jpeg", 40000), DataUrl("text/plain", 40000),
                  NoImage}

Init ==
    /\ pc = "request"
    /\ apiToken \in BOOLEAN
    /\ app = NoApp
    /\ imageBase64 \in RequestImages
    /\ recommendations \in RequestPlans
    /\ analysis = NoAnalysis
    /\ scores = NoScores
    /\ idx = 0
    /\ currentImage = NoImage
    /\ results = NoResults
    /\ calls = <<>>
    /\ response = NoResponse

Reject(status, msg) ==
    /\ pc' = "rejected"
    /\ response' = [NoResponse EXCEPT !.status = status, !.error = msg]
    /\ UNCHANGED <<idx, currentImage, results, calls>>

\* processAutopilotEnhance up to the head of its for-of loop
StartOrchestrator ==
    /\ results' = [original |-> imageBase64, steps |-> <<>>,
                   final |-> imageBase64]
    /\ currentImage' = imageBase64
    /\ calls' = <<>>
    /\ IF recommendations.kind = "not_iterable"
       THEN /\ pc' = "failed"
            /\ idx' = 0
            /\ response' = [NoResponse EXCEPT !.status = 500,
                                !.error = "Autopilot enhance failed"]
       ELSE /\ pc' = "loop"
            /\ idx' = 1
            /\ response' = NoResponse

\* (mutant) the handler also refuses an empty priority
InvalidInputEmptyPriority ==
    IF imageBase64.kind = "missing" THEN "missing image"
    ELSE IF recommendations.kind \in {"null", "no_priority"}
            \/ recommendations.priority = <<>>
         THEN "missing recommendations"
    ELSE ""

\* !imageBase64, then !recommendations || !recommendations.priority
InvalidInput ==
    IF imageBase64.kind = "missing" THEN "missing image"
    ELSE IF recommendations.kind \in {"null", "no_priority"}
         THEN "missing recommendations"
    ELSE ""

\* api/autopilot-enhance.ts: the Vercel handler
VercelHandler ==
    /\ pc = "request"
    /\ IF ~apiToken THEN Reject(500, "REPLICATE_API_TOKEN not configured")
       ELSE IF InvalidInput # "" THEN Reject(400, InvalidInput)
       ELSE StartOrchestrator
    /\ UNCHANGED <<app, apiToken, imageBase64, analysis, scores, recommendations>>

\* local-server.cjs: app.post('/api/autopilot-enhance')
LocalRoute ==
    /\ pc = "request"
    /\ IF InvalidInput # "" THEN Reject(400, InvalidInput)
       ELSE StartOrchestrator
    /\ UNCHANGED <<app, apiToken, imageBase64, analysis, scores, recommendations>>

\* the StepResult pushed for a step
SuccessRecord(step, cfg, img) ==
    [type |-> step, config |-> cfg, result |-> img, error |-> "",
     success |-> TRUE]
FailureRecord(step, cfg, msg) ==
    [type |-> step, config |-> cfg, result |-> NoImage, error |-> msg,
     success |-> FALSE]

\* (mutant) currentImage is assigned on the failure path too
ImageAfterAlways(cur, r) == r.image

\* currentImage after a step: assigned only on the success path
ImageAfter(cur, r) == IF r.err = "" THEN r.image ELSE cur

\* the record a finished adapter call leaves in results.steps
RecordAfter(step, cfg, r) ==
    IF r.err = "" THEN SuccessRecord(step, cfg, r.image)
    ELSE FailureRecord(step, cfg, r.err)

\* (mutant) a failed step ends the loop
IndexAfterAbort(i, r, n) == IF r.err = "" THEN i + 1 ELSE n + 1

\* where the for-of loop goes after a step, n being priority's length
IndexAfter(i, r, n) == i + 1

\* (mutant) final keeps its initial value
FinalImageOriginal(cur, orig) == orig

\* results.final = currentImage
FinalImage(cur, orig) == cur

\* (mutant) the record is put in front of the list
StepsUnshift(steps, rec) == <<rec>> \o steps

\* results.steps.push(rec)
StepsPush(steps, rec) == Append(steps, rec)

\* (mutant) an entry none of the three ifs takes up is recorded as failed
StepsAfterSkipRecorded(steps, step) ==
    Append(steps, FailureRecord(step, NullCfg, "skipped"))

\* results.steps after an iteration in which none of the three ifs holds:
\* the try block falls through without a push and without a throw
StepsAfterSkip(steps, step) == steps

\* (mutant) the adapter call is not awaited
MayStartStepNoAwait == pc \in {"loop", "awaiting"}

\* await: the loop body runs only while no adapter call is pending
MayStartStep == pc = "loop"

\* one iteration of the loop up to the provider call of its adapter
LoopStep ==
    /\ MayStartStep
    /\ idx <= Len(recommendations.priority)
    /\ LET step == recommendations.priority[idx]
           cfg == Cfg(recommendations, step)
       IN  IF StepEnabled(recommendations, step)
           THEN LET e == PreCallError(step, currentImage, cfg, apiToken)
                    r == [err |-> AdapterMessage(e), image |-> NoImage]
                IN  /\ calls' = Append(calls,
                            [type |-> step, image |-> currentImage])
                    /\ IF e # ""
                       THEN /\ results' = [results EXCEPT !.steps =
                                   StepsPush(@, RecordAfter(step, cfg, r))]
                            /\ idx' = IndexAfter(idx, r,
                                   Len(recommendations.priority))
                            /\ pc' = "loop"
                       ELSE /\ pc' = "awaiting"
                            /\ UNCHANGED <<results, idx>>
           ELSE /\ idx' = idx + 1
                /\ results' = [results EXCEPT !.steps =
                                  StepsAfterSkip(@, step)]
                /\ UNCHANGED <<pc, calls>>
    /\ UNCHANGED <<app, apiToken, imageBase64, analysis, scores, recommendations,
                   currentImage, response>>

\* replicate.run settles: the rest of the adapter and of the iteration
ProviderSettles ==
    /\ pc = "awaiting"
    /\ \E ans \in ProviderAnswers :
        LET step == recommendations.priority[idx]
            cfg == Cfg(recommendations, step)
            r == AdapterResult(step, ans)
        IN  /\ currentImage' = ImageAfter(currentImage, r)
            /\ results' = [results EXCEPT !.steps =
                              StepsPush(@, RecordAfter(step, cfg, r))]
            /\ idx' = IndexAfter(idx, r, Len(recommendations.priority))
    /\ pc' = "loop"
    /\ UNCHANGED <<app, apiToken, imageBase64, analysis, scores, recommendations,
                   calls, response>>

\* (mutant) the filter is left out
SuccessfulStepsUnfiltered(steps) == Len(steps)

\* results.steps.filter(s => s.success).length
SuccessfulSteps(steps) ==
    Cardinality({k \in 1..Len(steps) : steps[k].success})

\* (mutant) a run in which every step failed reports failure
RunSuccessIfAnyStep(steps) == steps = <<>> \/ SuccessfulSteps(steps) > 0

\* success: true of the object returned after the loop
RunSuccess(steps) == TRUE

\* after the loop: final, the counters, the return
Finish ==
    /\ pc = "loop"
    /\ idx > Len(recommendations.priority)
    /\ results' = [results EXCEPT !.final =
                      FinalImage(currentImage, results.original)]
    /\ response' = [status |-> 200, success |-> RunSuccess(results.steps),
            total_steps |-> Len(results.steps),
            successful_steps |-> SuccessfulSteps(results.steps),
            error |-> ""]
    /\ pc' = "done"
    /\ UNCHANGED <<app, apiToken, imageBase64, analysis, scores, recommendations,
                   idx, currentImage, calls>>

Next ==
    \/ VercelHandler
    \/ LocalRoute
    \/ LoopStep
    \/ ProviderSettles
    \/ Finish

Spec == Init /\ [][Next]_vars

\* The run under the scheduling the runtime guarantees: a handler that can
\* run does, and so do the synchronous parts of the loop.  Nothing
\* obliges the provider to settle a pending replicate.run, which is
\* awaited without a timer.
SpecLive ==
    /\ Spec
    /\ WF_vars(VercelHandler \/ LocalRoute)
    /\ WF_vars(LoopStep)
    /\ WF_vars(Finish)

----------------------------------------------------------------------------
(* Properties of the Orchestrator *)

\* the output of the last successful record of steps, or orig
LastOutput(steps, orig) ==
    LET ok == {k \in 1..Len(steps) : steps[k].success}
    IN  IF ok = {} THEN orig
        ELSE steps[CHOOSE k \in ok : \A j \in ok : j <= k].result

\* the entries of a priority list that name an enabled step
LiveEntries(rec, prio) == SelectSeq(prio, LAMBDA s : StepEnabled(rec, s))

Running == pc \in {"loop", "awaiting", "done"}

\* the entries of priority the loop has taken up so far
Visited ==
    SubSeq(recommendations.priority, 1,
           IF pc = "awaiting" THEN idx ELSE idx - 1)

AllThreePlan ==
    /\ recommendations.priority = <<"tone", "detail", "upscale">>
    /\ \A s \in StepNames : StepEnabled(recommendations, s)

\* C1: a failed step never aborts the plan.  Whatever the adapters did,
\* every entry of priority the loop has passed that names an enabled step
\* got its adapter invocation, in order, and exactly one StepResult; a
\* failure of any kind is a record with success = FALSE, an error
\* description and no result; the run ends only after the last entry, and
\* no step failure makes the run itself fail.
C1_FailureNeverAborts ==
    /\ Running =>
        LET live == LiveEntries(recommendations, Visited)
            steps == results.steps
        IN  /\ Len(calls) = Len(live)
            /\ \A k \in 1..Len(calls) : calls[k].type = live[k]
            /\ Len(steps) = Len(calls) - (IF pc = "awaiting" THEN 1 ELSE 0)
            /\ \A k \in 1..Len(steps) :
                /\ steps[k].type = calls[k].type
                /\ steps[k].success =>
                      steps[k].error = "" /\ steps[k].result # NoImage
                /\ ~steps[k].success =>
                      steps[k].error # "" /\ steps[k].result = NoImage
    /\ pc = "done" => idx = Len(recommendations.priority) + 1
    /\ pc = "failed" => recommendations.kind = "not_iterable"

C1_Witness ==
    /\ pc = "done"
    /\ Len(results.steps) = 3
    /\ results.steps[1].error = "rate limited"
    /\ results.steps[2].error = "timeout"
    /\ results.steps[3].success

\* C2: every adapter invocation is handed the output of the most recent
\* earlier step of the run that succeeded, or the original image if none
\* did; currentImage is that image at every point of the run.
C2_InputIsLatestOutput ==
    Running =>
        /\ \A k \in 1..Len(calls) :
              calls[k].image =
                  LastOutput(SubSeq(results.steps, 1, k - 1), imageBase64)
        /\ currentImage = LastOutput(results.steps, imageBase64)

C2_Witness ==
    /\ Len(calls) = 3
    /\ Len(results.steps) >= 2
    /\ results.steps[1].success
    /\ ~results.steps[2].success
    /\ calls[3].image = results.steps[1].result
    /\ calls[3].image # imageBase64

\* C3: when the Orchestrator returns, final is the output of the last
\* successful step, or the original image if none succeeded, and original
\* is the submitted image; for priority [tone, detail, upscale] with tone
\* failing and detail and upscale succeeding, the flags are
\* [FALSE, TRUE, TRUE] in this order and final is the upscale output.
C3_FinalIsLastSuccess ==
    /\ Running => results.original = imageBase64
    /\ pc = "done" =>
        /\ results.final = LastOutput(results.steps, imageBase64)
        /\ AllThreePlan =>
            /\ Len(results.steps) = 3
            /\ [k \in 1..3 |-> results.steps[k].type]
                  = <<"tone", "detail", "upscale">>
            /\ [k \in 1..3 |-> results.steps[k].success]
                  = <<FALSE, TRUE, TRUE>>
               => /\ results.final = results.steps[3].result
                  /\ results.final # imageBase64

C3_Witness ==
    /\ pc = "done"
    /\ AllThreePlan
    /\ Len(results.steps) = 3
    /\ [k \in 1..3 |-> results.steps[k].success] = <<FALSE, TRUE, TRUE>>
    /\ results.final = results.steps[3].result

----------------------------------------------------------------------------
(* The Basic Image Analyzer: analyzeImageBasic, calculateBasicScore and    *)
(* processAnalyze                                                          *)

\* /^data:image\/[a-z]+;base64,/ (no i flag) matches the prefix of img
PrefixMatches(img) ==
    img.kind = "data" /\ img.mime \in {"image/jpeg", "image/jpg",
        "image/png", "image/webp", "image/gif", "image/bmp", "image/tiff"}

\* the characters of "data:<m>;base64," that are base64 digits: the
\* decoder skips ':', ';' and ','
PrefixDigits(m) ==
    CASE m = "image/JPEG" -> 20
      [] m = "image/PNG" -> 19
      [] m = "text/plain" -> 20

\* the base64 digits that encode n bytes, padding left out
Base64Digits(n) == (4 * n + 2) \div 3

\* Buffer.from(base64Data, 'base64').length.  replace() removes the
\* prefix only where its regex matches; where it does not, the prefix
\* stays in base64Data and its base64 digits are decoded with the payload.
BufferLength(img) ==
    IF img.kind = "data" /\ ~PrefixMatches(img)
    THEN (3 * (PrefixDigits(img.mime) + Base64Digits(img.bytes))) \div 4
    ELSE img.bytes

analyzeImageBasic(img) ==
    LET format == IF img.kind = "data" /\ img.mime = "image/jpeg" THEN "jpeg"
                  ELSE IF img.kind = "data" /\ img.mime = "image/png" THEN "png"
                  ELSE IF img.kind = "data" /\ img.mime = "image/webp" THEN "webp"
                  ELSE "unknown"
        size == BufferLength(img)
    IN  [format |-> format,
         size |-> size,
         resolution |-> IF format = "jpeg" THEN size * 15
                        ELSE IF format = "png" THEN size * 4
                        ELSE size * 8]

\* in tenths: 5.0 is 50
calculateBasicScore(imageInfo) ==
    LET byResolution == IF imageInfo.resolution >= 2000000 THEN 20
                        ELSE IF imageInfo.resolution >= 1000000 THEN 10
                        ELSE IF imageInfo.resolution < 300000 THEN -10
                        ELSE 0
        bySize == IF imageInfo.size > 1000000 THEN 5
                  ELSE IF imageInfo.size < 50000 THEN -5
                  ELSE 0
        byFormat == IF imageInfo.format = "png" THEN 3
                    ELSE IF imageInfo.format = "webp" THEN 2
                    ELSE 0
    IN  Max(10, Min(100, 50 + byResolution + bySize + byFormat))

\* processAnalyze's return value.  It has neither quality_issues nor
\* image_info: has_quality_issues and has_image_info say whether the
\* object carries the field the Scorer looks for.
processAnalyze(img) ==
    LET imageInfo == analyzeImageBasic(img)
    IN  [kind |-> "analysis",
         success |-> TRUE,
         score |-> calculateBasicScore(imageInfo),
         analysis |->
            [format |-> imageInfo.format,
             size |-> imageInfo.size,
             quality_factors |->
                [resolution |->
                    IF imageInfo.resolution >= 1000000 THEN "high"
                    ELSE IF imageInfo.resolution >= 500000 THEN "medium"
                    ELSE "low",
                 file_size |-> IF imageInfo.size > 500000 THEN "large"
                               ELSE IF imageInfo.size > 100000 THEN "medium"
                               ELSE "small"]],
         has_quality_issues |-> FALSE,
         quality_issues |-> {},
         has_image_info |-> FALSE,
         image_info |-> [width |-> 0, height |-> 0]]

----------------------------------------------------------------------------
(* The ES-module versions of validation and of the analyzer, which the     *)
(* Vercel analyze handler imports                                          *)

\* /^data:image\/(jpeg|jpg|png|webp);base64,/ with no i flag
validateImageData_mjs(img) ==
    CASE img.kind = "missing" -> "missing_image"
      [] img.kind = "data" /\ img.mime \in {"image/jpeg", "image/jpg",
                                            "image/png", "image/webp"} -> ""
      [] OTHER -> "unsupported_format"

\* the (\w+) of /^data:image\/(\w+);base64,/
FormatWord(m) ==
    CASE m = "image/jpeg" -> "jpeg"
      [] m = "image/jpg" -> "jpg"
      [] m = "image/png" -> "png"
      [] m = "image/webp" -> "webp"
      [] m = "image/gif" -> "gif"
      [] OTHER -> "unknown"

\* the length of the base64 text of n bytes, padding included
Base64Length(n) == 4 * ((n + 2) \div 3)

analyzeImageBasic_mjs(img) ==
    LET format == IF img.kind = "data" THEN FormatWord(img.mime)
                  ELSE "unknown"
        base64Data == IF img.kind = "data" THEN Base64Length(img.bytes) ELSE 0
        sizeBytes == MathRound(base64Data * 3, 4)
    IN  [format |-> format,
         size |-> sizeBytes,
         quality_factors |->
            [resolution |-> IF sizeBytes > 100000 THEN "high"
                            ELSE IF sizeBytes > 50000 THEN "medium"
                            ELSE "low",
             file_size |-> IF sizeBytes > 500000 THEN "large"
                           ELSE IF sizeBytes > 100000 THEN "medium"
                           ELSE "small"]]

\* in tenths: 3.0 is 30
calculateBasicScore_mjs(a) ==
    LET byResolution == IF a.quality_factors.resolution = "high" THEN 10
                        ELSE IF a.quality_factors.resolution = "low" THEN -5
                        ELSE 0
        bySize == IF a.quality_factors.file_size = "large" THEN 5
                  ELSE IF a.quality_factors.file_size = "small" THEN -3
                  ELSE 0
        byFormat == IF a.format = "png" THEN 3
                    ELSE IF a.format = "webp" THEN 2
                    ELSE IF a.format \in {"jpeg", "jpg"} THEN -2
                    ELSE 0
    IN  Max(10, Min(50, 30 + byResolution + bySize + byFormat))

\* the ES-module processAnalyze's return value
processAnalyze_mjs(img) ==
    LET a == analyzeImageBasic_mjs(img)
    IN  [kind |-> "analysis",
         success |-> TRUE,
         score |-> calculateBasicScore_mjs(a),
         analysis |-> a,
         has_quality_issues |-> FALSE,
         quality_issues |-> {},
         has_image_info |-> FALSE,
         image_info |-> [width |-> 0, height |-> 0]]

----------------------------------------------------------------------------
(* The Autopilot analyze request: Analyzer -> Scorer -> Planner *)

NoPlan == [kind |-> "null", tone |-> NullCfg, detail |-> NullCfg,
           upscale |-> NullCfg, priority |-> <<>>]

PayloadTypes == {"image/jpeg", "image/jpg", "image/png", "image/webp",
                 "image/gif", "text/plain"}
PayloadBytes == {10000, 40000, 70000, 130000, 300000, 600000}
AnalyzePayloads ==
    {DataUrl(m, n) : m \in PayloadTypes, n \in PayloadBytes}
    \cup {RawBase64(n) : n \in PayloadBytes}
    \cup {NoImage}

InitAnalyze ==
    /\ pc = "request"
    /\ apiToken \in BOOLEAN
    /\ app = NoApp
    /\ imageBase64 \in AnalyzePayloads
    /\ recommendations = NoPlan
    /\ analysis = NoAnalysis
    /\ scores = NoScores
    /\ idx = 0
    /\ currentImage = NoImage
    /\ results = NoResults
    /\ calls = <<>>
    /\ response = NoResponse

\* analyzeImageQuality: processAnalyze (which throws the validation error
\* invalid, or returns basicAnalysis), calculateQualityScores,
\* generateEnhancementRecommendations, and the success response
AnalyzeImageQuality(invalid, basicAnalysis) ==
    IF invalid # ""
    THEN /\ pc' = "rejected"
         /\ response' = [NoResponse EXCEPT !.status = 500,
                            !.error = invalid]
         /\ UNCHANGED <<analysis, scores, recommendations>>
    ELSE /\ analysis' = basicAnalysis
         /\ scores' = calculateQualityScores(analysis')
         /\ recommendations' = generateEnhancementRecommendations(scores')
         /\ response' = [NoResponse EXCEPT !.status = 200, !.success = TRUE]
         /\ pc' = "responded"

\* the handler of the autopilot analyze endpoint (Vercel)
VercelAnalyze ==
    /\ pc = "request"
    /\ IF ~apiToken
       THEN /\ pc' = "rejected"
            /\ response' = [NoResponse EXCEPT !.status = 500,
                               !.error = "REPLICATE_API_TOKEN not configured"]
            /\ UNCHANGED <<analysis, scores, recommendations>>
       ELSE AnalyzeImageQuality(validateImageData_mjs(imageBase64),
                                processAnalyze_mjs(imageBase64))
    /\ UNCHANGED <<app, apiToken, imageBase64, idx, currentImage, results, calls>>

\* local-server.cjs: app.post('/api/autopilot-analyze')
LocalAnalyze ==
    /\ pc = "request"
    /\ IF imageBase64.kind = "missing"
       THEN /\ pc' = "rejected"
            /\ response' = [NoResponse EXCEPT !.status = 400,
                               !.error = "missing image"]
            /\ UNCHANGED <<analysis, scores, recommendations>>
       ELSE AnalyzeImageQuality(validateImageData(imageBase64),
                                processAnalyze(imageBase64))
    /\ UNCHANGED <<app, apiToken, imageBase64, idx, currentImage, results, calls>>

NextAnalyze ==
    \/ VercelAnalyze
    \/ LocalAnalyze

SpecAnalyze == InitAnalyze /\ [][NextAnalyze]_vars

----------------------------------------------------------------------------
(* The Scorer and the Planner on their own, over every input *)

IssueSets == SUBSET IssueTags
BasicFacts == [format |-> "jpeg", size |-> 40000,
               quality_factors |->
                  [resolution |-> "medium", file_size |-> "small"]]
ImageWidths == {500, 1000, 2000}
ImageHeights == {999, 1000, 1001}
ScorerInputs ==
    [kind : {"analysis"}, success : {TRUE}, score : {50},
     analysis : {BasicFacts},
     has_quality_issues : {TRUE}, quality_issues : IssueSets,
     has_image_info : {TRUE},
     image_info : [width : ImageWidths, height : ImageHeights]]
    \cup
    [kind : {"analysis"}, success : {TRUE}, score : {50},
     analysis : {BasicFacts},
     has_quality_issues : {TRUE}, quality_issues : IssueSets,
     has_image_info : {FALSE},
     image_info : {[width |-> 0, height |-> 0]}]
    \cup
    [kind : {"analysis"}, success : {TRUE}, score : {50},
     analysis : {BasicFacts},
     has_quality_issues : {FALSE}, quality_issues : {{}},
     has_image_info : BOOLEAN,
     image_info : [width : ImageWidths, height : ImageHeights]]

InitScorer ==
    /\ pc = "analyzed"
    /\ apiToken = TRUE
    /\ app = NoApp
    /\ imageBase64 = NoImage
    /\ recommendations = NoPlan
    /\ analysis \in ScorerInputs
    /\ scores = NoScores
    /\ idx = 0
    /\ currentImage = NoImage
    /\ results = NoResults
    /\ calls = <<>>
    /\ response = NoResponse

\* const scores = calculateQualityScores(basicAnalysis)
Score ==
    /\ pc = "analyzed"
    /\ scores' = calculateQualityScores(analysis)
    /\ pc' = "scored"
    /\ UNCHANGED <<app, apiToken, imageBase64, analysis, recommendations, idx,
                   currentImage, results, calls, response>>

SpecScorer == InitScorer /\ [][Score]_vars

\* the scores around every threshold of the planner
ScoreSamples == {0, 39, 40, 49, 50, 59, 60, 69, 70, 79, 80, MaxScore}
PlannerInputs ==
    {sc \in [tone : 0..MaxScore, detail : 0..MaxScore,
             resolution : 0..MaxScore, overall : {0}] :
        \/ sc.tone \in ScoreSamples /\ sc.detail \in ScoreSamples
        \/ sc.tone \in ScoreSamples /\ sc.resolution \in ScoreSamples
        \/ sc.detail \in ScoreSamples /\ sc.resolution \in ScoreSamples}

InitPlanner ==
    /\ pc = "scored"
    /\ apiToken = TRUE
    /\ app = NoApp
    /\ imageBase64 = NoImage
    /\ recommendations = NoPlan
    /\ analysis = NoAnalysis
    /\ \E sc \in PlannerInputs :
          scores = [sc EXCEPT !.overall =
                       MathRound(sc.tone + sc.detail + sc.resolution, 3)]
    /\ idx = 0
    /\ currentImage = NoImage
    /\ results = NoResults
    /\ calls = <<>>
    /\ response = NoResponse

\* const recommendations = generateEnhancementRecommendations(scores)
Plan ==
    /\ pc = "scored"
    /\ recommendations' = generateEnhancementRecommendations(scores)
    /\ pc' = "planned"
    /\ UNCHANGED <<app, apiToken, imageBase64, analysis, scores, idx,
                   currentImage, results, calls, response>>

SpecPlanner == InitPlanner /\ [][Plan]_vars

----------------------------------------------------------------------------
(* Properties of the Planner *)

\* C4: the plan's priority is [tone, detail, upscale] restricted to the
\* enabled steps: every entry names an enabled step, every enabled step
\* appears exactly once, and the order is tone, detail, upscale.
C4_PriorityIsEnabledInOrder ==
    pc = "planned" =>
        LET prio == recommendations.priority
        IN  /\ prio = SelectSeq(<<"tone", "detail", "upscale">>,
                         LAMBDA s : StepEnabled(recommendations, s))
            /\ \A k \in 1..Len(prio) : StepEnabled(recommendations, prio[k])
            /\ \A s \in StepNames :
                  Cardinality({k \in 1..Len(prio) : prio[k] = s})
                      = IF StepEnabled(recommendations, s) THEN 1 ELSE 0

C4_Witness ==
    /\ pc = "planned"
    /\ recommendations.priority = <<"tone", "upscale">>
    /\ ~StepEnabled(recommendations, "detail")

\* C5: the tone step is enabled iff tone < 80, the detail step iff
\* detail < 80, the upscale step iff resolution < 70, each whatever the
\* other two scores are.
C5_EnabledIffBelowThreshold ==
    pc = "planned" =>
        /\ StepEnabled(recommendations, "tone") <=> scores.tone < 80
        /\ StepEnabled(recommendations, "detail") <=> scores.detail < 80
        /\ StepEnabled(recommendations, "upscale") <=> scores.resolution < 70

C5_Witness ==
    /\ pc = "planned"
    /\ scores.tone = 80 /\ scores.detail = 79 /\ scores.resolution = 70
    /\ ~StepEnabled(recommendations, "tone")
    /\ StepEnabled(recommendations, "detail")
    /\ ~StepEnabled(recommendations, "upscale")

\* C6: the parameters of every enabled step follow the threshold table
\* (intensity in tenths): tone type night below 50, else general; tone
\* intensity 2.0 below 40, 1.5 in 40..59, 1.0 in 60..79; detail strength
\* 3 below 40, 2 in 40..59, 1 in 60..79; upscale scale 4 below 40, 2 in
\* 40..69.
C6_ParametersFollowTable ==
    pc = "planned" =>
        /\ StepEnabled(recommendations, "tone") =>
            /\ recommendations.tone.type = "night" <=> scores.tone < 50
            /\ recommendations.tone.type = "general" <=> scores.tone >= 50
            /\ recommendations.tone.intensity = 20 <=> scores.tone < 40
            /\ recommendations.tone.intensity = 15 <=> scores.tone \in 40..59
            /\ recommendations.tone.intensity = 10 <=> scores.tone \in 60..79
        /\ StepEnabled(recommendations, "detail") =>
            /\ recommendations.detail.strength = 3 <=> scores.detail < 40
            /\ recommendations.detail.strength = 2 <=> scores.detail \in 40..59
            /\ recommendations.detail.strength = 1 <=> scores.detail \in 60..79
        /\ StepEnabled(recommendations, "upscale") =>
            /\ recommendations.upscale.scale = 4 <=> scores.resolution < 40
            /\ recommendations.upscale.scale = 2
                  <=> scores.resolution \in 40..69

C6_Witness ==
    /\ pc = "planned"
    /\ scores.tone = 40 /\ scores.detail = 59 /\ scores.resolution = 39
    /\ recommendations.tone.type = "night"
    /\ recommendations.tone.intensity = 15
    /\ recommendations.detail.strength = 2
    /\ recommendations.upscale.scale = 4

----------------------------------------------------------------------------
(* Properties of the Scorer *)

\* C7: overall is the integer nearest to the mean of the three returned
\* (clamped) dimension scores, and all four values are integers in 0..100.
C7_OverallIsRoundedMean ==
    pc = "scored" =>
        LET sum == scores.tone + scores.detail + scores.resolution
        IN  /\ scores.tone \in 0..100
            /\ scores.detail \in 0..100
            /\ scores.resolution \in 0..100
            /\ scores.overall \in 0..100
            /\ 3 * scores.overall - sum \in {-1, 0, 1}

C7_Witness ==
    /\ pc = "scored"
    /\ (scores.tone + scores.detail + scores.resolution) % 3 = 2
    /\ 3 * scores.overall
          = scores.tone + scores.detail + scores.resolution + 1

\* C8: tone = clamp(70 - 20 underexposed - 20 overexposed - 15 low_contrast
\* - 15 color_cast) and detail = clamp(75 - 25 blurry - 20 noisy
\* - 15 compression_artifacts - 10 soft_details), the penalties adding up,
\* each score reading only its own four tags; 70 and 75 without tags.
C8_TagPenaltiesAdd ==
    pc = "scored" =>
        LET tags == IF analysis.has_quality_issues
                    THEN analysis.quality_issues ELSE {}
            n(t) == IF t \in tags THEN 1 ELSE 0
            clamp(x) == IF x < 0 THEN 0 ELSE IF x > 100 THEN 100 ELSE x
        IN  /\ scores.tone =
                  clamp(70 - 20 * n("underexposed") - 20 * n("overexposed")
                           - 15 * n("low_contrast") - 15 * n("color_cast"))
            /\ scores.detail =
                  clamp(75 - 25 * n("blurry") - 20 * n("noisy")
                           - 15 * n("compression_artifacts")
                           - 10 * n("soft_details"))
            /\ tags = {} => scores.tone = 70 /\ scores.detail = 75

C8_Witness ==
    /\ pc = "scored"
    /\ analysis.has_quality_issues
    /\ analysis.quality_issues = {"underexposed", "blurry", "soft_details"}
    /\ scores.tone = 50
    /\ scores.detail = 40

----------------------------------------------------------------------------
(* Properties of the Analyze flow *)

\* C9: the resolution score of a response is 80 minus the one penalty that
\* the Analyzer's estimated pixel count of the payload selects: 30 below
\* 500,000, 20 below 1,000,000, 10 below 2,000,000, none from 2,000,000.
C9_ResolutionFollowsPixelCount ==
    pc = "responded" =>
        LET count == analyzeImageBasic(imageBase64).resolution
        IN  /\ count < 500000 => scores.resolution = 50
            /\ count \in 500000..999999 => scores.resolution = 60
            /\ count \in 1000000..1999999 => scores.resolution = 70
            /\ count >= 2000000 => scores.resolution = 80

\* C10: a 40,000-byte jpeg payload is estimated at 600,000 pixels, scores
\* tone 70, detail 75, resolution 60, and gets a plan with tone (intensity
\* 1.0), detail (strength 1) and upscale (scale 2) enabled and priority
\* [tone, detail, upscale].
C10_EndToEndJpeg40000 ==
    (pc = "responded" /\ imageBase64 = DataUrl("image/jpeg", 40000)) =>
        /\ analyzeImageBasic(imageBase64).resolution = 600000
        /\ scores.tone = 70
        /\ scores.detail = 75
        /\ scores.resolution = 60
        /\ StepEnabled(recommendations, "tone")
        /\ recommendations.tone.intensity = 10
        /\ StepEnabled(recommendations, "detail")
        /\ recommendations.detail.strength = 1
        /\ StepEnabled(recommendations, "upscale")
        /\ recommendations.upscale.scale = 2
        /\ recommendations.priority = <<"tone", "detail", "upscale">>

----------------------------------------------------------------------------
(* The shared handlers called on one payload: validateImageData as        *)
(* test-image-format.cjs calls it, the CommonJS processAnalyze as the     *)
(* local server calls it, the ES-module processAnalyze as the Vercel      *)
(* handlers call it                                                       *)

SharedTypes == PayloadTypes \cup {"image/bmp", "image/tiff",
                                  "image/JPEG", "image/PNG"}
SharedPayloads ==
    {DataUrl(m, n) : m \in SharedTypes, n \in PayloadBytes}
    \cup {RawBase64(n) : n \in PayloadBytes}
    \cup {NoImage}

InitShared ==
    /\ pc = "call"
    /\ apiToken = TRUE
    /\ app = NoApp
    /\ imageBase64 \in SharedPayloads
    /\ recommendations = NoPlan
    /\ analysis = NoAnalysis
    /\ scores = NoScores
    /\ idx = 0
    /\ currentImage = NoImage
    /\ results = NoResults
    /\ calls = <<>>
    /\ response = NoResponse

\* what a call leaves: the value returned, or the error thrown
Returned(value) ==
    /\ analysis' = value
    /\ response' = [NoResponse EXCEPT !.success = TRUE]
Thrown(err) ==
    /\ analysis' = NoAnalysis
    /\ response' = [NoResponse EXCEPT !.error = err]

\* try { validateImageData(testCase.data) } catch ...
Validate ==
    /\ pc = "call"
    /\ pc' = "validated"
    /\ IF validateImageData(imageBase64) = ""
       THEN Returned([kind |-> "true"])
       ELSE Thrown(validateImageData(imageBase64))
    /\ UNCHANGED <<app, apiToken, imageBase64, scores, recommendations, idx,
                   currentImage, results, calls>>

\* the CommonJS processAnalyze(imageBase64, apiToken)
ProcessAnalyze ==
    /\ pc = "call"
    /\ pc' = "analyzed_cjs"
    /\ IF validateImageData(imageBase64) = ""
       THEN Returned(processAnalyze(imageBase64))
       ELSE Thrown(validateImageData(imageBase64))
    /\ UNCHANGED <<app, apiToken, imageBase64, scores, recommendations, idx,
                   currentImage, results, calls>>

\* the ES-module processAnalyze(imageBase64, apiToken)
ProcessAnalyze_mjs ==
    /\ pc = "call"
    /\ pc' = "analyzed_mjs"
    /\ IF validateImageData_mjs(imageBase64) = ""
       THEN Returned(processAnalyze_mjs(imageBase64))
       ELSE Thrown(validateImageData_mjs(imageBase64))
    /\ UNCHANGED <<app, apiToken, imageBase64, scores, recommendations, idx,
                   currentImage, results, calls>>

NextShared ==
    \/ Validate
    \/ ProcessAnalyze
    \/ ProcessAnalyze_mjs

SpecShared == InitShared /\ [][NextShared]_vars

----------------------------------------------------------------------------
(* Properties of validation *)

\* the media types the specification calls supported
SupportedTypes == {"image/jpeg", "image/jpg", "image/png", "image/webp"}

\* C11: validateImageData throws, returning nothing, for a missing (or
\* empty) payload and for every data: payload whose declared media type
\* is outside {jpeg, jpg, png, webp}, such as data:text/plain; the call
\* changes nothing else.
C11_RejectsUnsupportedTypes ==
    pc = "validated" =>
        /\ imageBase64.kind = "missing" =>
              ~response.success /\ response.error = "missing_image"
        /\ (imageBase64.kind = "data"
                /\ LowerCase(imageBase64.mime) \notin SupportedTypes) =>
              /\ ~response.success
              /\ response.error = "unsupported_format"
              /\ analysis = NoAnalysis

\* C12: validateImageData accepts every non-empty payload without a
\* declared-type prefix (bare base64 text), and every payload declaring a
\* supported type whatever the case of the type name (data:image/JPEG).
C12_AcceptsBareAndAnyCase ==
    pc = "validated" =>
        /\ imageBase64.kind = "raw" =>
              response.success /\ response.error = ""
        /\ (imageBase64.kind = "data"
                /\ LowerCase(imageBase64.mime) \in SupportedTypes) =>
              response.success /\ response.error = ""

C12_Witness ==
    /\ pc = "validated"
    /\ imageBase64 = DataUrl("image/JPEG", 40000)
    /\ response.success

----------------------------------------------------------------------------
(* Properties of the Enhance request *)

\* C13: with the provider token absent the Enhance request is rejected as
\* a whole, on either entry point: no adapter is invoked, no StepResult is
\* recorded and no PipelineResult is returned.
C13_MissingTokenFailsFast ==
    ~apiToken =>
        /\ calls = <<>>
        /\ results.steps = <<>>
        /\ pc # "done"
        /\ ~response.success

\* the image of the request is missing or fails validation
MalformedImage == validateImageData(imageBase64) # ""

\* the plan of the request is missing, lacks priority, or has a priority
\* that is not a list
InvalidPlan == recommendations.kind # "plan"

\* C14: an Enhance request with a missing or malformed image, or with an
\* invalid plan, is rejected before orchestration starts: no adapter is
\* invoked, no StepResult is recorded and no PipelineResult is returned.
C14_InvalidInputFailsFast ==
    (MalformedImage \/ InvalidPlan) =>
        /\ calls = <<>>
        /\ results.steps = <<>>
        /\ pc \notin {"loop", "awaiting", "done"}
        /\ ~response.success

\* C15: the counters the Orchestrator returns agree with the step list:
\* total_steps is the number of steps attempted, one StepResult for each
\* adapter invocation; successful_steps is the number of StepResults with
\* success = TRUE; and 0 <= successful_steps <= total_steps.
C15_CountersMatchSteps ==
    pc = "done" =>
        /\ response.total_steps = Len(calls)
        /\ response.total_steps = Len(results.steps)
        /\ response.successful_steps =
              Len(SelectSeq(results.steps, LAMBDA r : r.success))
        /\ 0 <= response.successful_steps
        /\ response.successful_steps <= response.total_steps

C15_Witness ==
    /\ pc = "done"
    /\ response.total_steps = 3
    /\ response.successful_steps = 1
    /\ results.steps[2].success

\* the plan of the request has no enabled step and an empty priority
EmptyPlan ==
    /\ recommendations.kind = "plan"
    /\ recommendations.priority = <<>>
    /\ \A s \in StepNames : ~StepEnabled(recommendations, s)

\* C16: for a plan with all three steps disabled and an empty priority
\* the Orchestrator invokes no adapter and returns final = the original
\* image with zero StepResults, total_steps = 0 and successful_steps = 0;
\* such a request is refused only for a missing image or a missing token.
C16_EmptyPlanReturnsOriginal ==
    EmptyPlan =>
        /\ calls = <<>>
        /\ results.steps = <<>>
        /\ pc \notin {"awaiting", "failed"}
        /\ pc = "rejected" => imageBase64 = NoImage \/ ~apiToken
        /\ pc = "done" =>
              /\ results.final = imageBase64
              /\ results.original = imageBase64
              /\ response.success
              /\ response.total_steps = 0
              /\ response.successful_steps = 0

C16_Witness ==
    /\ pc = "done"
    /\ EmptyPlan
    /\ imageBase64 = DataUrl("image/jpeg", 40000)
    /\ results.final = imageBase64
    /\ response.total_steps = 0

\* the number of adapter invocations made for step s
Invocations(s) == Cardinality({k \in 1..Len(calls) : calls[k].type = s})

\* C17: the Orchestrator never retries: in a run of any plan the endpoint
\* accepts, a plan edited by the caller included, each of tone, detail
\* and upscale is executed at most once, and a failed step is not invoked
\* again.
C17_AtMostOncePerStep ==
    Running => \A s \in StepNames : Invocations(s) <= 1

----------------------------------------------------------------------------
(* Monotonicity of the Planner *)

\* the intensity a plan asks of the tone step, none (0) without the step
ToneIntensity(rec) == IF rec.tone.enabled THEN rec.tone.intensity ELSE 0

\* the plan for the scores of the state with the tone score replaced by t
PlanWithTone(t) ==
    generateEnhancementRecommendations([scores EXCEPT !.tone = t])

\* C18: of two DimensionScores that differ only in tone, the one with the
\* lower tone score never gets the lower tone intensity: the intensity of
\* the plan is non-increasing in the tone score with detail and
\* resolution held fixed.
C18_IntensityMonotone ==
    pc = "planned" =>
        \A t \in 0..MaxScore :
            /\ t > scores.tone =>
                  ToneIntensity(PlanWithTone(t))
                      <= ToneIntensity(recommendations)
            /\ t < scores.tone =>
                  ToneIntensity(PlanWithTone(t))
                      >= ToneIntensity(recommendations)

C18_Witness ==
    /\ pc = "planned"
    /\ scores.tone = 39
    /\ ToneIntensity(recommendations) = 20
    /\ ToneIntensity(PlanWithTone(40)) = 15
    /\ ToneIntensity(PlanWithTone(60)) = 10

----------------------------------------------------------------------------
(* Properties of the Basic Image Analyzer and of its two versions *)

\* the per-format constant of the estimate
CompressionFactor(format) ==
    IF format = "jpeg" THEN 15 ELSE IF format = "png" THEN 4 ELSE 8

\* C19: the Analyzer's byteSize is the length of the decoded payload; its
\* estimated pixel count is byteSize times 15 for jpeg, 4 for png and 8
\* otherwise; resolution is high from 1,000,000, medium from 500,000 and
\* low below; file_size is large above 500,000 bytes, medium above
\* 100,000 and small otherwise.
C19_AnalyzerFacts ==
    (pc = "analyzed_cjs" /\ response.success) =>
        LET a == analysis.analysis
            estimatedPixelCount == a.size * CompressionFactor(a.format)
        IN  /\ a.size = imageBase64.bytes
            /\ a.quality_factors.resolution =
                  (IF estimatedPixelCount >= 1000000 THEN "high"
                   ELSE IF estimatedPixelCount >= 500000 THEN "medium"
                   ELSE "low")
            /\ a.quality_factors.file_size =
                  (IF a.size > 500000 THEN "large"
                   ELSE IF a.size > 100000 THEN "medium"
                   ELSE "small")

\* C20: the ES-module and the CommonJS versions of the shared handlers do
\* the same: validateImageData accepts a payload in both or rejects it in
\* both, and processAnalyze returns the same score and the same resolution
\* and file_size buckets in both.
C20_VersionsAgree ==
    /\ pc = "validated" =>
          (response.success <=> validateImageData_mjs(imageBase64) = "")
    /\ pc = "analyzed_mjs" =>
          (response.success <=> validateImageData(imageBase64) = "")
    /\ (pc = "analyzed_cjs" /\ response.success
            /\ validateImageData_mjs(imageBase64) = "") =>
          LET other == processAnalyze_mjs(imageBase64)
          IN  /\ analysis.score = other.score
              /\ analysis.analysis.quality_factors
                    = other.analysis.quality_factors

----------------------------------------------------------------------------
(* Further properties of the Orchestrator *)

\* the adapter invocations that have neither returned nor failed yet
InFlight == Len(calls) - Len(results.steps)

\* C21: within a run the steps execute strictly one after the other: at
\* most one adapter call is in flight at any time, and the invocation for
\* an entry of priority starts only after the one before it has returned
\* or failed (left its StepResult).
C21_StrictlySequential ==
    Running =>
        /\ InFlight \in {0, 1}
        /\ InFlight = 1 <=> pc = "awaiting"
        /\ \A k \in 1..Len(results.steps) :
              results.steps[k].type = calls[k].type

C21_Witness ==
    /\ pc = "awaiting"
    /\ Len(calls) = 3
    /\ Len(results.steps) = 2
    /\ InFlight = 1

\* s is an initial part of t
IsPrefix(s, t) == Len(s) <= Len(t) /\ SubSeq(t, 1, Len(s)) = s

\* a can be obtained from b by leaving entries out
RECURSIVE IsSubsequence(_, _)
IsSubsequence(a, b) ==
    IF a = <<>> THEN TRUE
    ELSE IF b = <<>> THEN FALSE
    ELSE IF Head(a) = Head(b) THEN IsSubsequence(Tail(a), Tail(b))
    ELSE IsSubsequence(a, Tail(b))

\* the step types of the StepResults recorded so far
StepTypes == [k \in 1..Len(results.steps) |-> results.steps[k].type]

\* C22: the StepResult list is append-only.  Every step of a run leaves
\* the records already there where and as they were and at most appends
\* to them, so the list is at every point a prefix of the one finally
\* returned; and the types of the records follow the order of their
\* entries in priority.
C22_StepsAppendOnly ==
    /\ [][IsPrefix(results.steps, results.steps')]_vars
    /\ [](Running => IsSubsequence(StepTypes, recommendations.priority))

C22_Witness ==
    /\ pc = "done"
    /\ recommendations.priority = <<"upscale", "sharpen", "tone">>
    /\ StepTypes = <<"upscale", "tone">>
    /\ ~results.steps[1].success

----------------------------------------------------------------------------
(* Two Enhance requests served concurrently.  Each call of                 *)
(* processAutopilotEnhance has its own parameters and its own locals       *)
(* (results, currentImage, the loop position); here every variable of the  *)
(* run is a function of the run.  The token is process.env's, read only.   *)

Runs == {1, 2}

\* (mutant) results and currentImage live at module level
ActivationShared(r) == 1

\* the activation whose locals run r reads and writes: its own
Activation(r) == r

ConcurrentImages == [Runs -> {DataUrl("image/jpeg", 40000),
                              DataUrl("image/png", 70000)}]
ConcurrentPlan(prio) ==
    [kind |-> "plan",
     tone |-> [enabled |-> TRUE, type |-> "night", intensity |-> 20],
     detail |-> [enabled |-> TRUE, type |-> "general", strength |-> 2],
     upscale |-> [enabled |-> FALSE, scale |-> 2, model |-> "real-esrgan"],
     priority |-> prio]
ConcurrentPlans == [Runs -> {ConcurrentPlan(<<"tone", "detail">>),
                             ConcurrentPlan(<<"detail", "upscale", "tone">>)}]
Pending == [err |-> "", shape |-> "pending", id |-> 0]

\* the provider's answers of this specification: an error, each output
\* as a string, and an empty result
ConcurrentAnswers ==
    {a \in ProviderAnswers :
        a.err = "rate_limit" \/ a.shape \in {"string", "null"}}

InitConcurrent ==
    /\ pc = [r \in Runs |-> "request"]
    /\ apiToken = TRUE
    /\ app = NoApp
    /\ imageBase64 \in ConcurrentImages
    /\ recommendations \in ConcurrentPlans
    /\ analysis = NoAnalysis
    /\ scores = NoScores
    /\ idx = [r \in Runs |-> 0]
    /\ currentImage = [r \in Runs |-> NoImage]
    /\ results = [r \in Runs |-> NoResults]
    /\ calls = [r \in Runs |-> <<>>]
    /\ response = [r \in Runs |-> NoResponse]

\* the handler hands a valid request to processAutopilotEnhance, which
\* runs to the head of its loop
StartRun(r) ==
    /\ pc[r] = "request"
    /\ results' = [results EXCEPT ![Activation(r)] =
                      [original |-> imageBase64[r], steps |-> <<>>,
                       final |-> imageBase64[r]]]
    /\ currentImage' = [currentImage EXCEPT ![Activation(r)] = imageBase64[r]]
    /\ idx' = [idx EXCEPT ![r] = 1]
    /\ pc' = [pc EXCEPT ![r] = "loop"]
    /\ UNCHANGED <<app, apiToken, imageBase64, analysis, scores, recommendations,
                   calls, response>>

\* run r: one iteration of the loop up to the provider call
LoopStepOf(r) ==
    /\ pc[r] = "loop"
    /\ idx[r] <= Len(recommendations[r].priority)
    /\ LET step == recommendations[r].priority[idx[r]]
           cfg == Cfg(recommendations[r], step)
           cur == currentImage[Activation(r)]
       IN  IF StepEnabled(recommendations[r], step)
           THEN LET e == PreCallError(step, cur, cfg, apiToken)
                    res == [err |-> AdapterMessage(e), image |-> NoImage]
                IN  /\ calls' = [calls EXCEPT ![r] = Append(@,
                            [type |-> step, image |-> cur, ans |-> Pending])]
                    /\ IF e # ""
                       THEN /\ results' = [results EXCEPT
                                   ![Activation(r)].steps =
                                       StepsPush(@, RecordAfter(step, cfg, res))]
                            /\ idx' = [idx EXCEPT ![r] = IndexAfter(@, res,
                                   Len(recommendations[r].priority))]
                            /\ pc' = pc
                       ELSE /\ pc' = [pc EXCEPT ![r] = "awaiting"]
                            /\ UNCHANGED <<results, idx>>
           ELSE /\ idx' = [idx EXCEPT ![r] = @ + 1]
                /\ results' = [results EXCEPT ![Activation(r)].steps =
                                  StepsAfterSkip(@, step)]
                /\ UNCHANGED <<pc, calls>>
    /\ UNCHANGED <<app, apiToken, imageBase64, analysis, scores, recommendations,
                   currentImage, response>>

\* run r: its pending replicate.run settles
ProviderSettlesOf(r) ==
    /\ pc[r] = "awaiting"
    /\ \E ans \in ConcurrentAnswers :
        LET step == recommendations[r].priority[idx[r]]
            cfg == Cfg(recommendations[r], step)
            res == AdapterResult(step, ans)
        IN  /\ currentImage' = [currentImage EXCEPT ![Activation(r)] =
                                   ImageAfter(@, res)]
            /\ results' = [results EXCEPT ![Activation(r)].steps =
                              StepsPush(@, RecordAfter(step, cfg, res))]
            /\ idx' = [idx EXCEPT ![r] = IndexAfter(@, res,
                              Len(recommendations[r].priority))]
            /\ calls' = [calls EXCEPT ![r][Len(calls[r])].ans = ans]
    /\ pc' = [pc EXCEPT ![r] = "loop"]
    /\ UNCHANGED <<app, apiToken, imageBase64, analysis, scores, recommendations,
                   response>>

\* run r: after the loop
FinishOf(r) ==
    /\ pc[r] = "loop"
    /\ idx[r] > Len(recommendations[r].priority)
    /\ results' = [results EXCEPT ![Activation(r)].final =
                      FinalImage(currentImage[Activation(r)],
                                 results[Activation(r)].original)]
    /\ response' = [response EXCEPT ![r] =
            [status |-> 200,
             success |-> RunSuccess(results[Activation(r)].steps),
             total_steps |-> Len(results[Activation(r)].steps),
             successful_steps |->
                SuccessfulSteps(results[Activation(r)].steps),
             error |-> ""]]
    /\ pc' = [pc EXCEPT ![r] = "done"]
    /\ UNCHANGED <<app, apiToken, imageBase64, analysis, scores, recommendations,
                   idx, currentImage, calls>>

NextConcurrent ==
    \E r \in Runs :
        \/ StartRun(r)
        \/ LoopStepOf(r)
        \/ ProviderSettlesOf(r)
        \/ FinishOf(r)

SpecConcurrent == InitConcurrent /\ [][NextConcurrent]_vars

\* what run r's k-th adapter call came to, from that call's own outcome
OwnRecord(r, k) ==
    LET c == calls[r][k]
    IN  RecordAfter(c.type, Cfg(recommendations[r], c.type),
                    AdapterResult(c.type, c.ans))

\* C24: concurrent Enhance requests share no mutable pipeline state.
\* However two runs interleave at their adapter calls, each run's
\* StepResults are those of its own calls and their own outcomes, every
\* call was handed the run's own latest image, and final and the counters
\* follow from the run's own image and steps.
C24_RunsAreIndependent ==
    \A r \in Runs :
        pc[r] \in {"loop", "awaiting", "done"} =>
            LET steps == results[r].steps
            IN  /\ results[r].original = imageBase64[r]
                /\ Len(steps) =
                      Len(calls[r]) - (IF pc[r] = "awaiting" THEN 1 ELSE 0)
                /\ \A k \in 1..Len(steps) : steps[k] = OwnRecord(r, k)
                /\ \A k \in 1..Len(calls[r]) :
                      calls[r][k].image =
                         LastOutput(SubSeq(steps, 1, k - 1), imageBase64[r])
                /\ currentImage[r] = LastOutput(steps, imageBase64[r])
                /\ pc[r] = "done" =>
                      /\ results[r].final = LastOutput(steps, imageBase64[r])
                      /\ response[r].total_steps = Len(steps)
                      /\ response[r].successful_steps =
                            Len(SelectSeq(steps, LAMBDA x : x.success))

C24_Witness ==
    /\ pc = [r \in Runs |-> "awaiting"]
    /\ Len(calls[1]) = 2
    /\ Len(calls[2]) = 2
    /\ results[1].steps[1].success
    /\ ~results[2].steps[1].success
    /\ imageBase64[1] # imageBase64[2]

----------------------------------------------------------------------------
(* Skipped entries and all-failed runs *)

\* the loop is at an entry of priority that names no enabled step
AtDeadEntry ==
    /\ pc = "loop"
    /\ idx <= Len(recommendations.priority)
    /\ ~StepEnabled(recommendations, recommendations.priority[idx])

\* C25: an entry of priority naming a step whose configuration is missing
\* or not enabled, or naming none of tone, detail and upscale, is passed
\* over silently: no adapter is invoked, no StepResult is appended,
\* currentImage stays as it is and the loop goes on to the next entry; so
\* total_steps counts the other entries only and can be smaller than the
\* length of priority.
C25_DeadEntriesAreSkipped ==
    /\ [][AtDeadEntry =>
            /\ calls' = calls
            /\ results' = results
            /\ currentImage' = currentImage
            /\ idx' = idx + 1
            /\ pc' = "loop"]_vars
    /\ [](pc = "done" =>
            /\ response.total_steps =
                  Len(LiveEntries(recommendations, recommendations.priority))
            /\ response.total_steps <= Len(recommendations.priority))

C25_Witness ==
    /\ pc = "done"
    /\ recommendations.priority = <<"sharpen", "detail", "tone">>
    /\ recommendations.detail = NullCfg
    /\ StepEnabled(recommendations, "tone")
    /\ response.total_steps = 1
    /\ results.steps[1].type = "tone"

\* every adapter invocation of the run failed, and there was at least one
AllStepsFailed ==
    /\ results.steps # <<>>
    /\ \A k \in 1..Len(results.steps) : ~results.steps[k].success

\* C26: a run whose priority is iterable returns success = TRUE whatever
\* adapters failed, also when all of them did: the request is answered
\* with 200, and in the all-failed case final is the original image,
\* successful_steps is 0 and total_steps counts the failed steps.  Only a
\* priority that cannot be iterated makes a started run fail.
C26_AllFailedIsStillSuccess ==
    /\ pc = "done" =>
          /\ response.success
          /\ response.status = 200
          /\ response.error = ""
          /\ AllStepsFailed =>
                /\ results.final = imageBase64
                /\ response.successful_steps = 0
                /\ response.total_steps = Len(results.steps)
                /\ response.total_steps = Len(calls)
    /\ pc = "failed" =>
          recommendations.kind = "not_iterable" /\ calls = <<>>

C26_Witness ==
    /\ pc = "done"
    /\ AllStepsFailed
    /\ Len(results.steps) = 3
    /\ response.success
    /\ response.total_steps = 3
    /\ results.final = imageBase64

----------------------------------------------------------------------------
(* The Planner's plans against the adapters' parameter checks *)

\* C27: every plan the Planner produces carries parameters the adapters
\* accept: a tone type among general, night, landscape, hdr with an
\* intensity from 0.1 to 2.0, a detail type among hair, plant, text,
\* general with a strength from 1 to 3, an upscale model that is supported
\* with a scale among 2, 4, 8; so with a valid image and the token set no
\* step of the plan fails before its provider call.
C27_PlannerPlansPassValidation ==
    pc = "planned" =>
        /\ recommendations.tone.enabled =>
              /\ recommendations.tone.type
                    \in {"general", "night", "landscape", "hdr"}
              /\ recommendations.tone.intensity \in 1..20
        /\ recommendations.detail.enabled =>
              /\ recommendations.detail.type
                    \in {"hair", "plant", "text", "general"}
              /\ recommendations.detail.strength \in 1..3
        /\ recommendations.upscale.enabled =>
              /\ recommendations.upscale.model \in {"real-esrgan", "aura-sr-v2"}
              /\ recommendations.upscale.scale \in {2, 4, 8}
        /\ \A k \in 1..Len(recommendations.priority) :
              LET step == recommendations.priority[k]
              IN  /\ StepEnabled(recommendations, step)
                  /\ PreCallError(step, DataUrl("image/jpeg", 40000),
                                  Cfg(recommendations, step), TRUE) = ""

C27_Witness ==
    /\ pc = "planned"
    /\ recommendations.priority = <<"tone", "detail", "upscale">>
    /\ recommendations.tone.intensity = 20
    /\ recommendations.detail.strength = 3
    /\ recommendations.upscale.scale = 4

----------------------------------------------------------------------------
(* What the Autopilot analyze endpoint makes of different images *)

\* the scores the endpoint computes for payload p, in each version of the
\* shared handlers that accepts p
ScoresFor(p) ==
    {calculateQualityScores(processAnalyze(q)) :
        q \in {x \in {p} : validateImageData(x) = ""}}
    \cup {calculateQualityScores(processAnalyze_mjs(q)) :
        q \in {x \in {p} : validateImageData_mjs(x) = ""}}

----------------------------------------------------------------------------
(* The Scorer followed by the Planner, over every Scorer input *)

NextScorePlan ==
    \/ Score
    \/ Plan

SpecScorePlan == InitScorer /\ [][NextScorePlan]_vars

\* C29: whatever the issue tags and the pixel count, the Scorer returns
\* tone <= 70, detail <= 75 and a resolution of 50, 60, 70 or 80; so a
\* plan made from Scorer output always enables the tone and the detail
\* step, and its upscale step, when enabled, has scale 2, never 4.
C29_ScorerRangeLimitsPlans ==
    /\ pc \in {"scored", "planned"} =>
          /\ scores.tone <= 70
          /\ scores.detail <= 75
          /\ scores.resolution \in {50, 60, 70, 80}
    /\ pc = "planned" =>
          /\ recommendations.tone.enabled
          /\ recommendations.detail.enabled
          /\ recommendations.upscale.enabled =>
                recommendations.upscale.scale = 2
          /\ recommendations.upscale.enabled <=> scores.resolution < 70

C29_Witness ==
    /\ pc = "planned"
    /\ scores.resolution = 50
    /\ recommendations.upscale.enabled
    /\ recommendations.upscale.scale = 2
    /\ recommendations.priority = <<"tone", "detail", "upscale">>

----------------------------------------------------------------------------
(* The App component: selecting a file and running Autopilot *)

InitApp ==
    /\ pc = "browser"
    /\ apiToken = TRUE
    /\ app = NoApp
    /\ imageBase64 = NoImage
    /\ recommendations = NoPlan
    /\ analysis = NoAnalysis
    /\ scores = NoScores
    /\ idx = 0
    /\ currentImage = NoImage
    /\ results = NoResults
    /\ calls = <<>>
    /\ response = NoResponse

server == <<pc, apiToken, imageBase64, analysis, scores, recommendations,
            idx, currentImage, results, calls, response>>

\* handleFileSelect(selectedFile): reachable at any time through the file
\* input and the drop area, neither of which is ever disabled
handleFileSelect ==
    /\ \E f \in 1..MaxFiles :
          app' = [app EXCEPT !.file = f,
                             !.error = FALSE,
                             !.autopilotScores = 0,
                             !.autopilotRecommendations = 0,
                             !.currentProcessedImage = 0]
    /\ UNCHANGED server

\* handleAutopilot up to its first await; the button is disabled while
\* isAnalyzing || isEnhancing
handleAutopilot ==
    /\ ~app.isAutopilotAnalyzing
    /\ ~app.isAutopilotEnhancing
    /\ app.run.at = "idle"
    /\ IF app.file = 0
       THEN app' = [app EXCEPT !.error = TRUE]
       ELSE app' = [app EXCEPT !.isAutopilotAnalyzing = TRUE,
                               !.error = FALSE,
                               !.run = [at |-> "reading", file |-> app.file]]
    /\ UNCHANGED server

\* catch and finally of handleAutopilot
Failed(a) ==
    [a EXCEPT !.error = TRUE,
              !.isAutopilotAnalyzing = FALSE,
              !.isAutopilotEnhancing = FALSE,
              !.run = [at |-> "idle", file |-> 0]]

\* getImageBase64(file) settles: the analyze request is sent, or the
\* rejection is caught
AnalyzeRequested ==
    /\ app.run.at = "reading"
    /\ \E ok \in BOOLEAN :
          app' = IF ok THEN [app EXCEPT !.run.at = "analyzing"]
                       ELSE Failed(app)
    /\ UNCHANGED server

\* the analyze response was ok: the setters after it, and the enhance
\* request with the same base64 and the plan just received
Analyzed(a) ==
    [a EXCEPT !.autopilotScores = a.run.file,
              !.autopilotRecommendations = a.run.file,
              !.isAutopilotAnalyzing = FALSE,
              !.isAutopilotEnhancing = TRUE,
              !.run.at = "enhancing"]

\* the response of /api/autopilot-analyze arrives
AnalyzeResponds ==
    /\ app.run.at = "analyzing"
    /\ \E ok \in BOOLEAN :
          app' = IF ok THEN Analyzed(app) ELSE Failed(app)
    /\ UNCHANGED server

\* the enhance response was ok: setCurrentProcessedImage, then finally
Enhanced(a) ==
    [a EXCEPT !.currentProcessedImage = a.run.file,
              !.isAutopilotAnalyzing = FALSE,
              !.isAutopilotEnhancing = FALSE,
              !.run = [at |-> "idle", file |-> 0]]

\* the response of /api/autopilot-enhance arrives
EnhanceResponds ==
    /\ app.run.at = "enhancing"
    /\ \E ok \in BOOLEAN :
          app' = IF ok THEN Enhanced(app) ELSE Failed(app)
    /\ UNCHANGED server

NextApp ==
    \/ handleFileSelect
    \/ handleAutopilot
    \/ AnalyzeRequested
    \/ AnalyzeResponds
    \/ EnhanceResponds

SpecApp == InitApp /\ [][NextApp]_vars

\* C30: whatever the App shows as autopilotScores, as
\* autopilotRecommendations or as currentProcessedImage was computed from
\* the file that is selected now: selecting another file while a run of
\* handleAutopilot waits for its analyze or enhance response never lets
\* the old run's result be stored for the new file.
C30_ResultsBelongToSelectedFile ==
    /\ app.autopilotScores # 0 => app.autopilotScores = app.file
    /\ app.autopilotRecommendations # 0 =>
          app.autopilotRecommendations = app.file
    /\ app.currentProcessedImage # 0 =>
          app.currentProcessedImage = app.file

====
